---- MODULE Spec2Model ----
(***************************************************************************)
(* Model of the oauth3-openclaw execution proxy: the HTTP server            *)
(* (proxy/src/server.ts), the Telegram approval bot (proxy/src/telegram.ts),*)
(* the request / trust store (database.ts) and the Deno skill executor      *)
(* (proxy/src/executor.ts).                                                 *)
(*                                                                         *)
(* Node runs every handler on one thread: a handler runs atomically up to  *)
(* its next await on real I/O (a Telegram call, a fetch, a child process), *)
(* and other handlers run between.  Each action below is one such atomic   *)
(* stretch; the handlers' positions are the continuation records in        *)
(* sending, approving and runs.                                            *)
(*                                                                         *)
(* Strings are sequences of tokens <<kind, text>>; code bytes are records  *)
(* of the metadata lines they carry plus a body tag; SHA-256 is modelled   *)
(* as a collision-free tagging of the bytes.                               *)
(***************************************************************************)
EXTENDS Integers, Sequences, FiniteSets, TLC

\* ------------------------------------------------------------------ bounds
MaxRequests == 2      \* request rows
MaxEvents == 4        \* inputs handled in one behaviour: submissions, button events,
                      \* secret replies and commands, changes of the code at a URL
MaxTicks == 2         \* clock advances in the trust-store specification
MaxStoreOps == 2      \* addApproval calls in the trust-store specification
MaxNameLen == 3       \* characters of a secret name in the reply specification
MaxCalls == 2         \* executeSkill calls in the code-file specification

\* ------------------------------------------------------------- constants
DefaultTimeout == 30          \* parseMetadata: timeout: 30
TruncStdout == 300            \* updateExecution: stdout.substring(0, 300)
TruncError == 200             \* updateExecution: error.substring(0, 200)
TwentyFourHours == 24 * 60 * 60 * 1000

ReqIds == 1..MaxRequests
Urls == {"u1", "u2"}
SecretNames == {"K1", "K2"}
SecretVals == {"v1", "v2"}
NoValue == ""                 \* an undefined (or empty) value: falsy in JS
ArgKeys == {"X", "K1"}
ArgVals == {"a1"}
ParentNames == {"HOME", "PATH", "TELEGRAM_BOT_TOKEN"}
EnvNames == SecretNames \cup ArgKeys \cup ParentNames
RuntimeMin == {"HOME", "PATH"}

\* process.env of the proxy: its own credentials beside HOME and PATH
ParentEnv == [n \in EnvNames |->
                CASE n = "HOME" -> "/root"
                  [] n = "PATH" -> "/usr/bin"
                  [] n = "TELEGRAM_BOT_TOKEN" -> "bot-token"
                  [] OTHER -> NoValue]

\* the environment the denoland/deno image gives a container before any -e
ImageEnv == [n \in EnvNames |->
                CASE n = "HOME" -> "/root"
                  [] n = "PATH" -> "/usr/local/bin"
                  [] OTHER -> NoValue]

Keys(f) == {k \in DOMAIN f : f[k] # NoValue}
Range(s) == {s[i] : i \in DOMAIN s}
Min(a, b) == IF a < b THEN a ELSE b

\* ------------------------------------------------------------------ strings
Lit(text) == <<"lit", text>>
Texts(str) == {str[i][2] : i \in DOMAIN str}
Substring(str, n) == SubSeq(str, 1, Min(Len(str), n))
\* the secret values a string contains (a scan for the sentinel bytes)
Scan(str) == Texts(str) \cap SecretVals

\* --------------------------------------------------------------- code bytes
\* skill = "" : no @skill line; timeout = 0 : no @timeout line
CodeBytes(skill, secrets, timeout, body) ==
    [skill |-> skill, secrets |-> secrets, timeout |-> timeout, body |-> body]
CodeA == CodeBytes("hello", <<"K1">>, 0, "A")
CodeB == CodeBytes("hello", <<"K1", "K2">>, 5, "B")
CodeBad == CodeBytes("", <<>>, 0, "X")
GoodCodes == {CodeA, CodeB}
Codes == GoodCodes \cup {CodeBad}
NoCode == CodeBytes("", <<>>, 0, "")

hashCode(code) == [sha256 |-> code]
Hashes == {hashCode(c) : c \in Codes}
NoHash == hashCode(NoCode)

NoMetadata == [skill |-> "", secrets |-> <<>>, timeout |-> 0]
parseMetadata(code) ==
    IF code.skill = "" THEN NoMetadata
    ELSE [skill |-> code.skill, secrets |-> code.secrets,
          timeout |-> IF code.timeout = 0 THEN DefaultTimeout ELSE code.timeout]

\* ------------------------------------------------------------ request store
NoArgs == [k \in ArgKeys |-> NoValue]
NoResult == [present |-> FALSE, success |-> FALSE, stdout |-> <<>>,
             stderr |-> <<>>, exitCode |-> ""]
NoRow == [status |-> "absent", skill_url |-> "", code_hash |-> NoHash,
          secrets |-> <<>>, args |-> NoArgs, result |-> NoResult,
          error |-> <<>>, telegram_message_id |-> 0]
Terminal == {"denied", "completed", "failed"}

createRequest(reqs, id, skillUrl, codeHash, secrets, args) ==
    [reqs EXCEPT ![id] = [NoRow EXCEPT !.status = "pending", !.skill_url = skillUrl,
                                       !.code_hash = codeHash, !.secrets = secrets,
                                       !.args = args]]

\* UPDATE execution_requests SET status = ?[, telegram_message_id = ?] WHERE id = ?
updateRequestStatus(reqs, id, status, telegramMessageId) ==
    [reqs EXCEPT ![id] = IF @.status = "absent" THEN @
                         ELSE [@ EXCEPT !.status = status,
                                        !.telegram_message_id =
                                   IF telegramMessageId # 0 THEN telegramMessageId ELSE @]]

\* (a variant that stores the result and the error but leaves the status)
updateRequestResultKeepsStatus(reqs, id, result, error) ==
    [reqs EXCEPT ![id] = IF @.status = "absent" THEN @
                         ELSE [@ EXCEPT !.result = result, !.error = error]]
\* UPDATE execution_requests SET status = ?, result = ?, error = ? WHERE id = ?
updateRequestResult(reqs, id, result, error) ==
    [reqs EXCEPT ![id] = IF @.status = "absent" THEN @
                         ELSE [@ EXCEPT !.status = IF error # <<>> THEN "failed" ELSE "completed",
                                        !.result = result,
                                        !.error = error]]

\* store_code / load_code: the codes table behind /view/:id
storeCode(cs, id, code) == [cs EXCEPT ![id] = code]
getCode(cs, id) == cs[id]

\* setSecret / deleteSecret / getAllSecrets: the secrets table, name -> value
setSecret(tbl, name, value) == [tbl EXCEPT ![name] = value]
deleteSecret(tbl, name) == [tbl EXCEPT ![name] = ""]
getAllSecrets(tbl) == tbl

\* -------------------------------------------------------------- trust store
TrustKeys == Urls \X {hashCode(c) : c \in GoodCodes}
NoApproval == [approval_level |-> "none", approved_at |-> 0, expires_at |-> 0]

\* (a variant that gives every level the 24h expiry)
addApprovalAlwaysExpires(apps, skillUrl, codeHash, approvalLevel, t) ==
    [apps EXCEPT ![<<skillUrl, codeHash>>] =
        [approval_level |-> approvalLevel, approved_at |-> t,
         expires_at |-> t + TwentyFourHours]]
\* INSERT OR REPLACE INTO skill_approvals; expires_at 0 stands for NULL
addApproval(apps, skillUrl, codeHash, approvalLevel, t) ==
    [apps EXCEPT ![<<skillUrl, codeHash>>] =
        [approval_level |-> approvalLevel, approved_at |-> t,
         expires_at |-> IF approvalLevel = "24h" THEN t + TwentyFourHours ELSE 0]]

deleteApproval(apps, skillUrl, codeHash) ==
    [apps EXCEPT ![<<skillUrl, codeHash>>] = NoApproval]

\* approval && approval.expires_at && approval.expires_at < Date.now()
approvalExpired(approval, t) ==
    /\ approval.approval_level # "none"
    /\ approval.expires_at # 0
    /\ approval.expires_at < t

\* getApproval: the row it returns (NoApproval for undefined) ...
\* (a variant whose SELECT matches on skill_url alone)
getApprovalAnyHash(apps, skillUrl, codeHash, t) ==
    IF \E k \in DOMAIN apps : k[1] = skillUrl /\ apps[k] # NoApproval /\ ~approvalExpired(apps[k], t)
    THEN (LET k == CHOOSE k \in DOMAIN apps :
                       k[1] = skillUrl /\ apps[k] # NoApproval /\ ~approvalExpired(apps[k], t)
          IN apps[k])
    ELSE NoApproval
getApproval(apps, skillUrl, codeHash, t) ==
    IF approvalExpired(apps[<<skillUrl, codeHash>>], t) THEN NoApproval
    ELSE apps[<<skillUrl, codeHash>>]
\* ... and the table it leaves behind (the expired row is deleted)
afterGetApproval(apps, skillUrl, codeHash, t) ==
    IF approvalExpired(apps[<<skillUrl, codeHash>>], t)
    THEN deleteApproval(apps, skillUrl, codeHash)
    ELSE apps

\* DELETE FROM skill_approvals WHERE expires_at IS NOT NULL AND expires_at < ?
\* (a variant without the IS NOT NULL: the NULL expiry, 0 here, counts as passed)
cleanupExpiredNullPassed(apps, t) ==
    [k \in DOMAIN apps |->
        IF apps[k].approval_level # "none" /\ apps[k].expires_at < t
        THEN NoApproval ELSE apps[k]]
cleanupExpired(apps, t) ==
    [k \in DOMAIN apps |->
        IF apps[k].approval_level # "none" /\ apps[k].expires_at # 0 /\ apps[k].expires_at < t
        THEN NoApproval ELSE apps[k]]

\* ----------------------------------------------------------------- executor
NoSecrets == [n \in SecretNames |-> NoValue]

\* buildSkillEnv: env = {}, then the secrets, then the args, then HOME and PATH
\* (a variant that starts from process.env instead of {})
buildSkillEnvInherit(secrets, args) ==
    [n \in EnvNames |->
        IF n \in ArgKeys /\ args[n] # NoValue THEN args[n]
        ELSE IF n \in SecretNames /\ secrets[n] # NoValue THEN secrets[n]
        ELSE ParentEnv[n]]
buildSkillEnv(secrets, args) ==
    [n \in EnvNames |->
        IF n \in RuntimeMin /\ ParentEnv[n] # NoValue THEN ParentEnv[n]
        ELSE IF n \in ArgKeys /\ args[n] # NoValue THEN args[n]
        ELSE IF n \in SecretNames /\ secrets[n] # NoValue THEN secrets[n]
        ELSE NoValue]

\* executeSkillDocker: -e for each secret, then -e for each arg (the later -e wins),
\* on top of what the image sets
dockerEnv(secrets, args) ==
    [n \in EnvNames |->
        IF n \in ArgKeys /\ args[n] # NoValue THEN args[n]
        ELSE IF n \in SecretNames /\ secrets[n] # NoValue THEN secrets[n]
        ELSE ImageEnv[n]]

childEnv(m, secrets, args) ==
    IF m = "direct" THEN buildSkillEnv(secrets, args) ELSE dockerEnv(secrets, args)

ArgOrder == <<"X", "K1">>
\* the command line execFile is given; a token <<name, value>> is "-e name=value"
commandLine(m, order, secrets, args) ==
    IF m = "direct" THEN <<Lit("deno"), Lit("run"), Lit("skill.ts")>>
    ELSE <<Lit("docker"), Lit("run")>>
         \o [i \in 1..Len(order) |-> <<order[i], secrets[order[i]]>>]
         \o SelectSeq([i \in 1..Len(ArgOrder) |-> <<ArgOrder[i], args[ArgOrder[i]]>>],
                      LAMBDA t : t[2] # NoValue)
         \o <<Lit("denoland/deno:latest"), Lit("run"), Lit("/app/script.ts")>>

\* what a child may do: exit 0 printing a literal or one of the variables it may
\* read, exit non-zero with a message on stderr, run into the timeout, or never start
Behaviours(env) ==
    {[kind |-> "exit0", stdout |-> <<Lit("HELLO")>>, stderr |-> <<>>]}
    \cup {[kind |-> "exit0", stdout |-> <<Lit(env[k])>>, stderr |-> <<>>] :
             k \in {n \in SecretNames : env[n] # NoValue}}
    \cup {[kind |-> "nonzero", stdout |-> <<>>, stderr |-> <<Lit("boom")>>],
          [kind |-> "timeout", stdout |-> <<>>, stderr |-> <<>>],
          [kind |-> "spawnfail", stdout |-> <<>>, stderr |-> <<>>]}

\* executeSkill up to its await of execFile: the child that was started
executeSkill(serialNo, requestId, code, m, order, secrets, args) ==
    [id |-> serialNo, req |-> requestId, code |-> code, mode |-> m, order |-> order,
     secrets |-> secrets, args |-> args, env |-> childEnv(m, secrets, args)]

\* execFile's error.message: 'Command failed: ' + cmd + '\n' + stderr, or the spawn error
errorMessage(run, b) ==
    IF b.kind = "spawnfail" THEN <<Lit("spawn ENOENT")>>
    ELSE <<Lit("Command failed:")>>
         \o commandLine(run.mode, run.order, run.secrets, run.args) \o b.stderr

\* the ExecutionResult of executeSkillDirect / executeSkillDocker
executionResult(run, b) ==
    IF b.kind = "exit0"
    THEN [present |-> TRUE, success |-> TRUE, stdout |-> b.stdout,
          stderr |-> b.stderr, exitCode |-> "0"]
    ELSE [present |-> TRUE, success |-> FALSE, stdout |-> b.stdout,
          stderr |-> IF b.stderr # <<>> THEN b.stderr ELSE errorMessage(run, b),
          exitCode |-> CASE b.kind = "nonzero" -> "1"
                         [] b.kind = "spawnfail" -> "ENOENT"
                         [] OTHER -> "1"]

\* -------------------------------------------------------------------- state
VARIABLES
    requests,          \* execution_requests: id -> row (NoRow: no such row)
    codes,             \* the stored code bytes: id -> bytes (NoCode: none)
    approvals,         \* skill_approvals: <<skill_url, code_hash>> -> row
    secretStore,       \* the in-memory secrets object: name -> value
    dbSecrets,         \* the persisted secrets table
    upstream,          \* what a fetch of each skill URL returns now
    now,               \* Date.now()
    mode,              \* EXECUTOR_MODE
    requestMetadata,   \* bot: requestId -> the secrets the code's metadata declares
    requestMessages,   \* bot: requestId -> has the prompt's message been recorded
    pendingApprovals,  \* bot: requestId -> PendingApproval
    keyboard,          \* the buttons of the prompt a request was sent with; the bot
                       \* checks no event against them, and the edit that takes them
                       \* away may fail (it is caught) or reach the operator late
    addButtons,        \* the secret names an "Add <name>" button was shown for
    sending,           \* POST /execute handlers awaiting sendMessage's answer
    approving,         \* approve handlers awaiting editRequestMessage
    runs,              \* executeInBackground calls awaiting executeSkill
    serial,            \* sandbox launches so far
    events,            \* inputs handled so far
    ticks, storeOps,   \* clock advances and addApproval calls of the trust-store specification
    approveHandled,    \* requests an approve event has been handled for
    denyHandled,       \* requests a deny event has been handled for
    launched,          \* id -> sandbox launches for that request
    handed,            \* id -> the code bytes handed to the sandbox for it
    refetched,         \* requests whose code was fetched again after submission
    notifs,            \* <<kind, id>> -> notifications emitted
    leaked,            \* surface -> the secret values its emitted strings held
    lookup,            \* the last getApproval call of the trust-store specification
    grants,            \* trust key -> the last addApproval for it
    execCall,          \* the executeSkill call of the executor specification
    execResult,        \* ... and the ExecutionResult it returned
    responses,         \* id -> the answer POST /execute gave for that request
    commanded,         \* requests whose dialogue waited for a secret when a command
                       \* (not a reply) supplied it
    replyCall,         \* the secret prompt of the reply specification
    tmpFiles,          \* tmpdir(): code hash -> the call whose writeFile wrote
                       \* skill-<hash>.ts last (0: no such file)
    calls              \* the executeSkill calls of the code-file specification

botVars == <<requestMetadata, requestMessages, pendingApprovals, keyboard, addButtons>>
dbVars == <<requests, codes, approvals, secretStore, dbSecrets>>
envVars == <<upstream, now, mode>>
posVars == <<sending, approving, runs, serial>>
histVars == <<approveHandled, denyHandled, launched, handed, refetched, notifs, leaked>>
unitVars == <<ticks, storeOps, lookup, grants, execCall, execResult>>
auxVars == <<responses, commanded, replyCall>>
fileVars == <<tmpFiles, calls>>
vars == <<dbVars, envVars, botVars, posVars, events, histVars, unitVars, auxVars, fileVars>>

NoCall == executeSkill(0, 0, NoCode, "none", <<>>, NoSecrets, NoArgs)
CallIds == 1..MaxCalls
\* pos: none, writing (await writeFile), starting and running (await execFile,
\* before and after the child has opened its script), unlinking (await unlink),
\* ended, rejected; loaded: what the child found when it opened its script
NoJob == [pos |-> "none", run |-> NoCall, loaded |-> "not yet", result |-> NoResult]
NoReply == [declared |-> <<>>, stage |-> "none", data |-> <<>>, name |-> <<>>,
            text |-> <<>>, stored |-> <<>>]
NoPending == [level |-> "none", requiredSecrets |-> <<>>]
NotifKinds == {"denied", "completed", "failed"}
Surfaces == {"chat", "notify"}
NoGrant == [level |-> "none", at |-> 0]
NoLookup == [key |-> <<"", NoHash>>, at |-> 0, present |-> FALSE, grant |-> NoGrant]
\* what POST /execute answered: res.json({request_id, status: 'pending', ...}), or
\* res.status(500).json({error}); code 0: no answer yet
NoResponse == [code |-> 0, request_id |-> 0]

\* What the approve / deny callbacks and executeInBackground read and write,
\* as one value, so that a handler that calls them in a row composes them.
\* trail: the status writes the handler has made so far, <<id, from, to>> each;
\* prompts: the secret prompts it has emitted, <<id, secretName>> each
Cur == [trail |-> <<>>, prompts |-> <<>>, requests |-> requests, approvals |-> approvals,
        pendingApprovals |-> pendingApprovals, runs |-> runs, serial |-> serial,
        addButtons |-> addButtons, launched |-> launched, handed |-> handed,
        refetched |-> refetched, notifs |-> notifs, leaked |-> leaked]

Commit(S) ==
    /\ requests' = S.requests
    /\ approvals' = S.approvals
    /\ pendingApprovals' = S.pendingApprovals
    /\ runs' = S.runs
    /\ serial' = S.serial
    /\ addButtons' = S.addButtons
    /\ launched' = S.launched
    /\ handed' = S.handed
    /\ refetched' = S.refetched
    /\ notifs' = S.notifs
    /\ leaked' = S.leaked

\* for (const name of requiredSecrets) if (!secrets[name]) missingSecrets.push(name),
\* and requiredSecrets.filter(name => !this.secretStore[name]) in the bot
\* (a variant that finds nothing missing)
missingSecretsNone(names, vault) == <<>>
missingSecrets(names, vault) == SelectSeq(names, LAMBDA n : vault[n] = NoValue)

\* db.updateRequestStatus(id, status) and db.updateRequestResult(id, result, error)
\* as the handlers call them: each is one UPDATE, committed when it returns
writeStatus(S, id, status) ==
    LET reqs == updateRequestStatus(S.requests, id, status, 0)
    IN [S EXCEPT !.requests = reqs,
                 !.trail = IF S.requests[id].status = "absent" THEN @
                           ELSE Append(@, <<id, S.requests[id].status, reqs[id].status>>)]
writeResult(S, id, result, error) ==
    LET reqs == updateRequestResult(S.requests, id, result, error)
    IN [S EXCEPT !.requests = reqs,
                 !.trail = IF S.requests[id].status = "absent" THEN @
                           ELSE Append(@, <<id, S.requests[id].status, reqs[id].status>>)]

\* notifyAgent(message): one notification; message is what it says about request id
notifyAgent(S, kind, id, message) ==
    [S EXCEPT !.notifs[<<kind, id>>] = @ + 1,
              !.leaked["notify"] = @ \cup Scan(message)]

\* editRequestMessage: without the recorded prompt message it does nothing
editRequestMessage(S, id, appendText) ==
    IF requestMessages[id]
    THEN [S EXCEPT !.leaked["chat"] = @ \cup Scan(appendText)]
    ELSE S

\* updateExecution: the result summary appended to the prompt, then the notification
updateExecution(S, id, success, stdout, error) ==
    LET suffix == IF success /\ stdout # <<>> THEN Substring(stdout, TruncStdout)
                  ELSE IF error # <<>> THEN Substring(error, TruncError)
                  ELSE <<>>
        S1 == editRequestMessage(S, id, suffix)
    IN IF success THEN notifyAgent(S1, "completed", id, <<>>)
       ELSE notifyAgent(S1, "failed", id, error)

\* requestSecret: edit the prompt, and register the request as pending on secretName
requestSecret(S, id, secretName) ==
    IF requestMessages[id]
    THEN [S EXCEPT !.addButtons = @ \cup {secretName},
                   !.prompts = Append(@, <<id, secretName>>),
                   !.pendingApprovals[id] =
                        [level |-> "once", requiredSecrets |-> <<secretName>>]]
    ELSE S

RECURSIVE requestSecrets(_, _, _)
requestSecrets(S, id, missing) ==
    IF missing = <<>> THEN S
    ELSE requestSecrets(requestSecret(S, id, Head(missing)), id, Tail(missing))

\* executeInBackground calls executeSkill: the child's environment is fixed here
launch(S, id, code, requiredSecrets, vault) ==
    LET row == S.requests[id]
        secretValues == [n \in SecretNames |->
                            IF n \in Range(requiredSecrets) THEN vault[n] ELSE NoValue]
        run == executeSkill(S.serial + 1, id, code, mode, requiredSecrets, secretValues,
                            row.args)
    IN [S EXCEPT !.runs = @ \cup {run},
                 !.serial = @ + 1,
                 !.launched[id] = @ + 1,
                 !.handed[id] = @ \cup {code}]

\* executeInBackground up to its first await
executeInBackground(S, id, code, metadata, requiredSecrets, vault) ==
    LET S1 == writeStatus(S, id, "executing")
        missing == missingSecrets(requiredSecrets, vault)
    IN IF missing # <<>>
       THEN requestSecrets(writeStatus(S1, id, "awaiting_secrets"), id, missing)
       ELSE IF metadata = NoMetadata
       THEN \* metadata.timeout of null throws; the catch stores the error
            LET msg == <<Lit("TypeError")>>
                S2 == writeResult(S1, id, NoResult, msg)
            IN IF S2.requests[id].telegram_message_id # 0
               THEN updateExecution(S2, id, FALSE, <<>>, msg) ELSE S2
       ELSE launch(S1, id, code, requiredSecrets, vault)

\* the bytes onApproval executes: the stored ones, or a fresh fetch without them
\* (a variant that always takes the fresh fetch)
codeToExecuteRefetch(stored, fetched) == fetched
codeToExecute(stored, fetched) == IF stored # NoCode THEN stored ELSE fetched

\* the onApproval callback of server.ts
onApproval(S, id, level, vault) ==
    LET request == S.requests[id] IN
    IF request.status = "absent" THEN S
    ELSE LET S1 == IF level \in {"24h", "forever"}
                   THEN [S EXCEPT !.approvals =
                            addApproval(@, request.skill_url, request.code_hash, level, now)]
                   ELSE S
             S2 == writeStatus(S1, id, "approved")
             stored == getCode(codes, id)
             fetched == upstream[request.skill_url]
             code == codeToExecute(stored, fetched)
             S3 == IF code # stored \/ stored = NoCode
                   THEN [S2 EXCEPT !.refetched = @ \cup {id}] ELSE S2
         IN executeInBackground(S3, id, code, parseMetadata(code), request.secrets, vault)

\* the onDenial callback of server.ts
\* (a variant of onDenial that runs the approval path)
onDenialAsApproval(S, id, vault) == onApproval(S, id, "once", vault)
onDenial(S, id, vault) == writeStatus(S, id, "denied")

\* ------------------------------------------------------------------ actions
\* the secrets table a start may find: server.ts loads it into the vault
PersistedSecrets ==
    {NoSecrets, [NoSecrets EXCEPT !["K1"] = "v1"],
     [NoSecrets EXCEPT !["K1"] = "v1", !["K2"] = "v2"]}

Init ==
    /\ requests = [r \in ReqIds |-> NoRow]
    /\ codes = [r \in ReqIds |-> NoCode]
    /\ approvals = [k \in TrustKeys |-> NoApproval]
    /\ dbSecrets \in PersistedSecrets
    /\ secretStore = getAllSecrets(dbSecrets)
    /\ upstream = [u \in Urls |-> CodeB]
    /\ now = 0
    /\ mode = "docker"
    /\ requestMetadata = [r \in ReqIds |-> <<>>]
    /\ requestMessages = [r \in ReqIds |-> FALSE]
    /\ pendingApprovals = [r \in ReqIds |-> NoPending]
    /\ keyboard = [r \in ReqIds |-> {}]
    /\ addButtons = {}
    /\ sending = {}
    /\ approving = {}
    /\ runs = {}
    /\ serial = 0
    /\ events = 0
    /\ ticks = 0
    /\ storeOps = 0
    /\ approveHandled = {}
    /\ denyHandled = {}
    /\ launched = [r \in ReqIds |-> 0]
    /\ handed = [r \in ReqIds |-> {}]
    /\ refetched = {}
    /\ notifs = [k \in NotifKinds \X ReqIds |-> 0]
    /\ leaked = [s \in Surfaces |-> {}]
    /\ lookup = NoLookup
    /\ grants = [k \in TrustKeys |-> NoGrant]
    /\ execCall = NoCall
    /\ execResult = NoResult
    /\ responses = [r \in ReqIds |-> NoResponse]
    /\ commanded = {}
    /\ replyCall = NoReply
    /\ tmpFiles = [h \in Hashes |-> 0]
    /\ calls = [j \in CallIds |-> NoJob]

\* the keyboard of sendApprovalRequest
\* (a variant that offers the trust button whatever the lookup says)
promptKeyboardAlwaysFull(codeIsTrusted) == {"approve:once", "deny", "approve:trust_code"}
promptKeyboard(codeIsTrusted) ==
    IF codeIsTrusted THEN {"approve:once", "deny"}
    ELSE {"approve:once", "deny", "approve:trust_code"}

\* POST /execute up to the await of bot.sendMessage.  sendOk: Telegram takes the
\* message; without it sendMessage rejects and the handler answers 500.
SubmitSend(skillUrl, requiredSecrets, args, sendOk) ==
    LET code == upstream[skillUrl]
        codeHash == hashCode(code)
        metadata == parseMetadata(code)
        free == {r \in ReqIds : requests[r].status = "absent"}
        requestId == CHOOSE r \in free : \A q \in free : r <= q
    IN /\ events < MaxEvents
       /\ free # {}
       /\ metadata # NoMetadata
       /\ events' = events + 1
       /\ requests' = createRequest(requests, requestId, skillUrl, codeHash,
                                    requiredSecrets, args)
       /\ codes' = storeCode(codes, requestId, code)
       /\ requestMetadata' = [requestMetadata EXCEPT ![requestId] = metadata.secrets]
       /\ approvals' = afterGetApproval(approvals, skillUrl, codeHash, now)
       /\ keyboard' = [keyboard EXCEPT ![requestId] =
               IF sendOk
               THEN promptKeyboard(getApproval(approvals, skillUrl, codeHash, now) # NoApproval)
               ELSE {}]
       /\ sending' = IF sendOk THEN sending \cup {requestId} ELSE sending
       /\ responses' = IF sendOk THEN responses
                       ELSE [responses EXCEPT ![requestId] = [code |-> 500, request_id |-> 0]]
       /\ UNCHANGED <<fileVars, commanded, replyCall, secretStore, dbSecrets, envVars, requestMessages, pendingApprovals,
                      addButtons, approving, runs, serial, histVars, unitVars>>

\* sendMessage answered: requestMessages.set, then
\* db.updateRequestStatus(requestId, 'pending', messageId)
SubmitAttach(requestId) ==
    /\ requestId \in sending
    /\ sending' = sending \ {requestId}
    /\ requestMessages' = [requestMessages EXCEPT ![requestId] = TRUE]
    /\ requests' = updateRequestStatus(requests, requestId, "pending", requestId)
    /\ responses' = [responses EXCEPT ![requestId] =
                          [code |-> 200, request_id |-> requestId]]
    /\ UNCHANGED <<fileVars, commanded, replyCall, codes, approvals, secretStore, dbSecrets, envVars, requestMetadata,
                   pendingApprovals, keyboard, addButtons, approving, runs, serial,
                   events, histVars, unitVars>>

\* the approve handler after its await of editRequestMessage
approveResume(S, requestId, approvalLevel, missing, vault) ==
    IF missing # <<>>
    THEN [S EXCEPT !.pendingApprovals[requestId] =
                        [level |-> approvalLevel, requiredSecrets |-> missing]]
    ELSE onApproval(S, requestId, approvalLevel, vault)

\* callback_query 'approve:<requestId>:<level>' up to the await of the edit; with no
\* recorded prompt message the edit is no I/O and the handler runs on at once
approveClick(S, requestId, level) ==
    LET request == requests[requestId]
        trusted == IF level = "trust_code" /\ request.status # "absent"
                   THEN addApproval(approvals, request.skill_url, request.code_hash,
                                    "forever", now)
                   ELSE approvals
        missing == missingSecrets(requestMetadata[requestId], secretStore)
        S0 == [S EXCEPT !.approvals = trusted]
        S1 == IF requestMessages[requestId] /\ missing # <<>>
              THEN [S0 EXCEPT !.addButtons = @ \cup {missing[1]},
                              !.prompts = Append(@, <<requestId, missing[1]>>)]
              ELSE S0
    IN IF requestMessages[requestId] THEN S1
       ELSE approveResume(S1, requestId, level, missing, secretStore)

ApproveClick(requestId, level) ==
    LET missing == missingSecrets(requestMetadata[requestId], secretStore)
    IN /\ events < MaxEvents
       /\ ("approve:" \o level) \in keyboard[requestId]
       /\ events' = events + 1
       /\ approveHandled' = approveHandled \cup {requestId}
       /\ approving' = IF requestMessages[requestId]
                       THEN approving \cup
                                {[n |-> events + 1, req |-> requestId, level |-> level,
                                  missing |-> missing]}
                       ELSE approving
       /\ Commit(approveClick(Cur, requestId, level))
       /\ UNCHANGED <<fileVars, auxVars, codes, secretStore, dbSecrets, envVars, requestMetadata,
                      requestMessages, keyboard, sending, denyHandled, unitVars>>

ApproveResume(c) ==
    /\ c \in approving
    /\ approving' = approving \ {c}
    /\ Commit(approveResume(Cur, c.req, c.level, c.missing, secretStore))
    /\ UNCHANGED <<fileVars, auxVars, codes, secretStore, dbSecrets, envVars, requestMetadata,
                   requestMessages, keyboard, sending, events, approveHandled, denyHandled,
                   unitVars>>

\* callback_query 'deny:<requestId>'.  editOk: bot.editMessageText succeeds; when
\* it throws, the catch skips the notification
denyClick(S, requestId, editOk) ==
    LET S1 == onDenial(S, requestId, secretStore)
    IN IF editOk THEN notifyAgent(S1, "denied", requestId, <<>>) ELSE S1

DenyClick(requestId, editOk) ==
    /\ events < MaxEvents
    /\ "deny" \in keyboard[requestId]
    /\ events' = events + 1
    /\ denyHandled' = denyHandled \cup {requestId}
    /\ Commit(denyClick(Cur, requestId, editOk))
       /\ UNCHANGED <<fileVars, auxVars, codes, secretStore, dbSecrets, envVars, requestMetadata,
                      requestMessages, keyboard, sending, approving, approveHandled,
                      unitVars>>

\* the loop of the reply handler over pendingApprovals, in the order of the ids
RECURSIVE resumePending(_, _, _, _)
resumePending(S, ids, secretName, vault) ==
    IF ids = {} THEN S
    ELSE LET id == CHOOSE r \in ids : \A q \in ids : r <= q
             pending == S.pendingApprovals[id]
             stillMissing == missingSecrets(pending.requiredSecrets, vault)
             S1 == IF secretName \notin Range(pending.requiredSecrets) THEN S
                   ELSE IF stillMissing = <<>>
                   THEN onApproval([S EXCEPT !.pendingApprovals[id] = NoPending],
                                   id, pending.level, vault)
                   ELSE IF requestMessages[id]
                   THEN [S EXCEPT !.addButtons = @ \cup {stillMissing[1]},
                                  !.prompts = Append(@, <<id, stillMissing[1]>>)]
                   ELSE S
         IN resumePending(S1, ids \ {id}, secretName, vault)

\* the value the operator has for each secret
ValueFor(n) == IF n = "K1" THEN "v1" ELSE "v2"

\* a reply to an 'Add Secret: <name>' prompt (the prompt comes from an Add button
\* of a request message, or from the secrets menu for a stored name)
SecretReply(secretName, secretValue) ==
    LET vault == [secretStore EXCEPT ![secretName] = secretValue] IN
    /\ events < MaxEvents
    /\ secretName \in addButtons \/ secretStore[secretName] # NoValue
    /\ events' = events + 1
    /\ secretStore' = vault
    /\ dbSecrets' = setSecret(dbSecrets, secretName, secretValue)
    /\ Commit(resumePending(Cur, ReqIds, secretName, vault))
    /\ UNCHANGED <<fileVars, auxVars, codes, envVars, requestMetadata, requestMessages, keyboard, sending,
                   approving, approveHandled, denyHandled, unitVars>>

\* POST /secrets, or handleAddSecret for the /add_secret command: a vault write
\* and a confirmation; what it leaves of the bot's and the store's state
\* (a variant that resumes the dialogues waiting for the name, as the reply does)
handleAddSecretResumes(S, secretName, vault) == resumePending(S, ReqIds, secretName, vault)
handleAddSecret(S, secretName, vault) == S

SetSecret(name, value) ==
    LET vault == [secretStore EXCEPT ![name] = value] IN
    /\ events < MaxEvents
    /\ events' = events + 1
    /\ secretStore' = vault
    /\ dbSecrets' = setSecret(dbSecrets, name, value)
    /\ commanded' = commanded \cup
           {r \in ReqIds : name \in Range(pendingApprovals[r].requiredSecrets)}
    /\ Commit(handleAddSecret(Cur, name, vault))
    /\ UNCHANGED <<fileVars, responses, replyCall, codes, envVars, requestMetadata, requestMessages,
                   keyboard, sending, approving, approveHandled, denyHandled, unitVars>>

\* delete this.secretStore[name]
\* (a variant that leaves the in-memory object as it is)
handleDeleteSecretTableOnly(vault, name) == vault
handleDeleteSecret(vault, name) == [vault EXCEPT ![name] = NoValue]

\* the delete button of the secrets menu, or the /delete_secret command
DeleteSecret(name) ==
    /\ events < MaxEvents
    /\ secretStore[name] # NoValue
    /\ events' = events + 1
    /\ secretStore' = handleDeleteSecret(secretStore, name)
    /\ dbSecrets' = deleteSecret(dbSecrets, name)
    /\ UNCHANGED <<fileVars, auxVars, requests, codes, approvals, envVars, botVars, posVars, histVars,
                   unitVars>>

\* the owner of a skill URL changes what it serves
UpstreamChange(skillUrl, code) ==
    /\ events < MaxEvents
    /\ upstream[skillUrl] # code
    /\ events' = events + 1
    /\ upstream' = [upstream EXCEPT ![skillUrl] = code]
    /\ UNCHANGED <<fileVars, auxVars, dbVars, now, mode, botVars, posVars, histVars, unitVars>>

\* executeSkill returned: the rest of executeInBackground
sandboxReturn(S, run, b) ==
    LET result == executionResult(run, b)
        S1 == writeResult([S EXCEPT !.runs = @ \ {run}], run.req, result,
                          IF result.success THEN <<>> ELSE result.stderr)
    IN IF S1.requests[run.req].telegram_message_id # 0
       THEN updateExecution(S1, run.req, result.success, result.stdout, result.stderr)
       ELSE S1

SandboxReturn(run, b) ==
    /\ run \in runs
    /\ b \in Behaviours(run.env)
    /\ Commit(sandboxReturn(Cur, run, b))
       /\ UNCHANGED <<fileVars, auxVars, codes, secretStore, dbSecrets, envVars, requestMetadata,
                      requestMessages, keyboard, sending, approving, events,
                      approveHandled, denyHandled, unitVars>>

\* error.message of what the catch of executeInBackground may be handed
\* (catch (error: any)): a text, or none
Thrown == {<<Lit("ENOSPC")>>, <<>>}

\* executeSkill rejected (it could not write the skill file, say): the catch of
\* executeInBackground
backgroundThrows(S, run, message) ==
    LET S1 == writeResult([S EXCEPT !.runs = @ \ {run}], run.req, NoResult, message)
    IN IF S1.requests[run.req].telegram_message_id # 0
       THEN updateExecution(S1, run.req, FALSE, <<>>, message)
       ELSE S1

BackgroundThrows(run, message) ==
    /\ run \in runs
    /\ Commit(backgroundThrows(Cur, run, message))
       /\ UNCHANGED <<fileVars, auxVars, codes, secretStore, dbSecrets, envVars, requestMetadata,
                      requestMessages, keyboard, sending, approving, events,
                      approveHandled, denyHandled, unitVars>>

\* the secrets list of the request body
SubmitLists == {<<"K1", "K2">>}
SubmitArgs == {[NoArgs EXCEPT !["X"] = "a1"]}

\* setInterval(() => db.cleanupExpired(), 60 * 60 * 1000)
StoreCleanup ==
    /\ approvals' = cleanupExpired(approvals, now)
    /\ UNCHANGED <<fileVars, auxVars, requests, codes, secretStore, dbSecrets, envVars, botVars, posVars,
                   events, histVars, unitVars>>

\* the chat the bot is configured with (TELEGRAM_CHAT_ID), and another one
chatId == "operator"
Chats == {chatId, "other"}

\* callback_data of the buttons: approve:<id>:<level>, deny:<id>, delete_secret:<name>
CallbackData ==
    {<<"approve", r, l>> : r \in ReqIds, l \in {"once", "trust_code"}}
    \cup {<<"deny", r>> : r \in ReqIds}
    \cup {<<"delete_secret", n>> : n \in SecretNames}

\* bot.on('callback_query'): the handler dispatches on query.data and at no point
\* reads which chat the query's message is in.  editOk: see DenyClick
CallbackQuery(chat, data, editOk) ==
    CASE data[1] = "approve" -> ApproveClick(data[2], data[3])
      [] data[1] = "deny" -> DenyClick(data[2], editOk)
      [] OTHER -> DeleteSecret(data[2])

\* the texts the message handler acts on: a reply to an 'Add Secret: <name>'
\* prompt, /add_secret <name> <value>, /delete_secret <name>
MessageTexts == {"reply", "/add_secret", "/delete_secret"} \X SecretNames

\* bot.on('message'): a message from any chat but the configured one is dropped
Message(chat, text) ==
    IF chat # chatId THEN UNCHANGED vars
    ELSE CASE text[1] = "reply" -> SecretReply(text[2], ValueFor(text[2]))
           [] text[1] = "/add_secret" -> SetSecret(text[2], ValueFor(text[2]))
           [] OTHER -> DeleteSecret(text[2])

Next ==
    \/ \E u \in {"u1"}, l \in SubmitLists, a \in SubmitArgs, ok \in BOOLEAN :
           SubmitSend(u, l, a, ok)
    \/ \E r \in ReqIds : SubmitAttach(r)
    \/ \E chat \in Chats, data \in CallbackData, ok \in BOOLEAN :
           CallbackQuery(chat, data, ok)
    \/ \E c \in approving : ApproveResume(c)
    \/ \E chat \in Chats, text \in MessageTexts : Message(chat, text)
    \/ \E n \in SecretNames : SetSecret(n, ValueFor(n))
    \/ \E u \in {"u1"}, c \in Codes : UpstreamChange(u, c)
    \/ StoreCleanup
    \/ \E run \in runs : \E b \in Behaviours(run.env) : SandboxReturn(run, b)
    \/ \E run \in runs, m \in Thrown : BackgroundThrows(run, m)

Spec == Init /\ [][Next]_vars

\* ------------------------------------------------------- read-only endpoints
\* esc of GET /view/:id: & < > replaced by entities; the browser's rendering undoes it
esc(text) == [html |-> text]
rendered(page) == page.html

\* GET /view/:id: the stored code of the request, escaped into the page's <pre>
\* (a variant that serves what the URL serves now)
viewCodeRefetch(id) ==
    IF getCode(codes, id) = NoCode THEN [status |-> 404, pre |-> esc(NoCode)]
    ELSE [status |-> 200, pre |-> esc(upstream[requests[id].skill_url])]
viewCode(id) ==
    IF getCode(codes, id) = NoCode THEN [status |-> 404, pre |-> esc(NoCode)]
    ELSE [status |-> 200, pre |-> esc(getCode(codes, id))]

\* the text of the page: the skill's name and the code
viewText(id) ==
    LET code == rendered(viewCode(id).pre) IN <<Lit(code.skill), Lit(code.body)>>

\* GET /execute/:id/status: the row's status, result and error as stored
statusEndpoint(id) ==
    IF requests[id].status = "absent"
    THEN [code |-> 404, status |-> "", result |-> NoResult, error |-> <<>>]
    ELSE [code |-> 200, status |-> requests[id].status,
          result |-> requests[id].result, error |-> requests[id].error]

statusText(id) ==
    statusEndpoint(id).result.stdout \o statusEndpoint(id).result.stderr
        \o statusEndpoint(id).error

\* ------------------------------------------------ the trust store on its own
\* ProxyDatabase's skill_approvals methods under a clock: addApproval with each
\* level its signature takes ('once' | '24h' | 'forever'), getApproval, and the
\* hourly cleanupExpired
GrantLevels == {"once", "24h", "forever"}
ClockSteps == {1, TwentyFourHours - 1}

\* keys that differ in the hash only, and in the URL only
StoreKeys == {<<"u1", hashCode(CodeA)>>, <<"u1", hashCode(CodeB)>>, <<"u2", hashCode(CodeA)>>}

\* the database a start finds holds a secret
InitStore == Init /\ dbSecrets = [NoSecrets EXCEPT !["K1"] = "v1"]

Tick(d) ==
    /\ ticks < MaxTicks
    /\ ticks' = ticks + 1
    /\ now' = now + d
    /\ UNCHANGED <<fileVars, auxVars, dbVars, upstream, mode, botVars, posVars, events, histVars, storeOps,
                   lookup, grants, execCall, execResult>>

StoreAdd(skillUrl, codeHash, approvalLevel) ==
    /\ storeOps < MaxStoreOps
    /\ storeOps' = storeOps + 1
    /\ approvals' = addApproval(approvals, skillUrl, codeHash, approvalLevel, now)
    /\ grants' = [grants EXCEPT ![<<skillUrl, codeHash>>] =
                      [level |-> approvalLevel, at |-> now]]
    /\ UNCHANGED <<fileVars, auxVars, requests, codes, secretStore, dbSecrets, envVars, botVars, posVars,
                   events, histVars, ticks, lookup, execCall, execResult>>

StoreLookup(skillUrl, codeHash) ==
    /\ lookup' = [key |-> <<skillUrl, codeHash>>, at |-> now,
                  present |-> getApproval(approvals, skillUrl, codeHash, now) # NoApproval,
                  grant |-> grants[<<skillUrl, codeHash>>]]
    /\ approvals' = afterGetApproval(approvals, skillUrl, codeHash, now)
    /\ UNCHANGED <<fileVars, auxVars, requests, codes, secretStore, dbSecrets, envVars, botVars, posVars,
                   events, histVars, ticks, storeOps, grants, execCall, execResult>>

\* deleteApproval called for a key that has a row: the grant is gone with it
StoreDelete(skillUrl, codeHash) ==
    /\ approvals[<<skillUrl, codeHash>>] # NoApproval
    /\ approvals' = deleteApproval(approvals, skillUrl, codeHash)
    /\ grants' = [grants EXCEPT ![<<skillUrl, codeHash>>] = NoGrant]
    /\ UNCHANGED <<fileVars, auxVars, requests, codes, secretStore, dbSecrets, envVars, botVars, posVars,
                   events, histVars, ticks, storeOps, lookup, execCall, execResult>>

NextStore ==
    \/ \E d \in ClockSteps : Tick(d)
    \/ \E k \in StoreKeys, l \in GrantLevels : StoreAdd(k[1], k[2], l)
    \/ \E k \in StoreKeys : StoreLookup(k[1], k[2])
    \/ \E k \in StoreKeys : StoreDelete(k[1], k[2])
    \/ StoreCleanup

SpecStore == InitStore /\ [][NextStore]_vars

\* --------------------------------------------------- the executor on its own
\* executeSkill for every request it may be given, in either EXECUTOR_MODE
Modes == {"direct", "docker"}
ExecOrders == {<<>>, <<"K1">>, <<"K2">>, <<"K1", "K2">>}
ExecArgs == [ArgKeys -> ArgVals \cup {NoValue}]

InitExec ==
    /\ requests = [r \in ReqIds |-> NoRow]
    /\ codes = [r \in ReqIds |-> NoCode]
    /\ approvals = [k \in TrustKeys |-> NoApproval]
    /\ dbSecrets = NoSecrets
    /\ secretStore = NoSecrets
    /\ upstream = [u \in Urls |-> CodeB]
    /\ now = 0
    /\ mode \in Modes
    /\ requestMetadata = [r \in ReqIds |-> <<>>]
    /\ requestMessages = [r \in ReqIds |-> FALSE]
    /\ pendingApprovals = [r \in ReqIds |-> NoPending]
    /\ keyboard = [r \in ReqIds |-> {}]
    /\ addButtons = {}
    /\ sending = {}
    /\ approving = {}
    /\ runs = {}
    /\ serial = 0
    /\ events = 0
    /\ ticks = 0
    /\ storeOps = 0
    /\ approveHandled = {}
    /\ denyHandled = {}
    /\ launched = [r \in ReqIds |-> 0]
    /\ handed = [r \in ReqIds |-> {}]
    /\ refetched = {}
    /\ notifs = [k \in NotifKinds \X ReqIds |-> 0]
    /\ leaked = [s \in Surfaces |-> {}]
    /\ lookup = NoLookup
    /\ grants = [k \in TrustKeys |-> NoGrant]
    /\ execCall = NoCall
    /\ execResult = NoResult
    /\ responses = [r \in ReqIds |-> NoResponse]
    /\ commanded = {}
    /\ replyCall = NoReply
    /\ tmpFiles = [h \in Hashes |-> 0]
    /\ calls = [j \in CallIds |-> NoJob]

ExecuteSkill(code, order, secrets, args) ==
    /\ execCall = NoCall
    /\ execCall' = executeSkill(1, 1, code, mode, order, secrets, args)
    /\ UNCHANGED <<fileVars, auxVars, dbVars, envVars, botVars, posVars, events, histVars, ticks, storeOps,
                   lookup, grants, execResult>>

ExecuteReturn(b) ==
    /\ execCall # NoCall
    /\ execResult = NoResult
    /\ b \in Behaviours(execCall.env)
    /\ execResult' = executionResult(execCall, b)
    /\ UNCHANGED <<fileVars, auxVars, dbVars, envVars, botVars, posVars, events, histVars, ticks, storeOps,
                   lookup, grants, execCall>>

NextExec ==
    \/ \E c \in GoodCodes, o \in ExecOrders, v \in [SecretNames -> SecretVals],
          a \in ExecArgs :
           ExecuteSkill(c, o, [n \in SecretNames |-> IF n \in Range(o) THEN v[n] ELSE NoValue],
                        a)
    \/ \E b \in Behaviours(execCall.env) : ExecuteReturn(b)

SpecExec == InitExec /\ [][NextExec]_vars

\* ------------------------------------------------- the vault across restarts
\* Every path that writes or deletes a secret, with any value the operator or a
\* caller may give, around requests that wait for secrets, and the process
\* stopping and starting again on the same database.

\* POST /secrets {name, value}: 400 without a value, else both stores are written
PostSecrets(name, value) ==
    /\ events < MaxEvents
    /\ events' = events + 1
    /\ secretStore' = IF value = NoValue THEN secretStore
                      ELSE [secretStore EXCEPT ![name] = value]
    /\ dbSecrets' = IF value = NoValue THEN dbSecrets ELSE setSecret(dbSecrets, name, value)
    /\ UNCHANGED <<fileVars, auxVars, requests, codes, approvals, envVars, botVars, posVars, histVars,
                   unitVars>>

\* The process ends and is started again: the tables are what they were, the
\* secrets object is loaded from the table, the bot's maps are new and empty, and
\* the handlers that were waiting are gone.  The messages in the chat, with their
\* buttons, are still there.
Restart ==
    /\ events < MaxEvents
    /\ events' = events + 1
    /\ secretStore' = getAllSecrets(dbSecrets)
    /\ requestMetadata' = [r \in ReqIds |-> <<>>]
    /\ requestMessages' = [r \in ReqIds |-> FALSE]
    /\ pendingApprovals' = [r \in ReqIds |-> NoPending]
    /\ sending' = {}
    /\ approving' = {}
    /\ runs' = {}
    /\ UNCHANGED <<fileVars, auxVars, requests, codes, approvals, dbSecrets, envVars, keyboard,
                   addButtons, serial, histVars, unitVars>>

NextVault ==
    \/ \E l \in SubmitLists, a \in SubmitArgs : SubmitSend("u1", l, a, TRUE)
    \/ \E r \in ReqIds : SubmitAttach(r)
    \/ \E data \in CallbackData : CallbackQuery(chatId, data, TRUE)
    \/ \E c \in approving : ApproveResume(c)
    \/ \E n \in SecretNames, v \in SecretVals : SecretReply(n, v)
    \/ \E n \in SecretNames, v \in SecretVals : SetSecret(n, v)
    \/ \E n \in SecretNames : Message(chatId, <<"/delete_secret", n>>)
    \/ \E n \in SecretNames, v \in SecretVals \cup {NoValue} : PostSecrets(n, v)
    \/ Restart

SpecVault == Init /\ [][NextVault]_vars

\* ----------------------------------------------------- the code file of a run
\* executeSkillDirect / executeSkillDocker step by step, for calls that overlap:
\* the file is join(tmpdir(), `skill-${codeHash}.ts`), so calls with the same
\* code bytes use the same file.
tmpFile(code) == hashCode(code)

\* writeFile(tmpFile, request.code, 'utf8') when it has taken effect
writeFile(fs, path, j) == [fs EXCEPT ![path] = j]
\* unlink(tmpFile).catch(() => {}): the file is removed if it is there
\* (a variant that removes nothing)
unlinkNothing(fs, path) == fs
unlink(fs, path) == [fs EXCEPT ![path] = 0]

FileSecrets == [NoSecrets EXCEPT !["K1"] = "v1"]
InFlight == {"writing", "starting", "running", "unlinking"}

\* executeSkill(request): the hash, the path, and writeFile called
CallExecuteSkill(j, code) ==
    /\ calls[j].pos = "none"
    /\ \A k \in CallIds : k < j => calls[k].pos # "none"
    /\ calls' = [calls EXCEPT ![j] =
           [NoJob EXCEPT !.pos = "writing",
                         !.run = executeSkill(j, j, code, mode, <<"K1">>, FileSecrets, NoArgs)]]
    /\ UNCHANGED <<auxVars, dbVars, envVars, botVars, posVars, events, histVars, unitVars,
                   tmpFiles>>

\* writeFile resolved: the try block up to the await of execFile
WriteFileDone(j) ==
    /\ calls[j].pos = "writing"
    /\ tmpFiles' = writeFile(tmpFiles, tmpFile(calls[j].run.code), j)
    /\ calls' = [calls EXCEPT ![j].pos = "starting"]
    /\ UNCHANGED <<auxVars, dbVars, envVars, botVars, posVars, events, histVars, unitVars>>

\* writeFile rejected (it is outside the try: executeSkill rejects, nothing is
\* unlinked).  left: the file had been created before the write failed
WriteFileFails(j, left) ==
    /\ calls[j].pos = "writing"
    /\ tmpFiles' = IF left THEN writeFile(tmpFiles, tmpFile(calls[j].run.code), j)
                   ELSE tmpFiles
    /\ calls' = [calls EXCEPT ![j].pos = "rejected"]
    /\ UNCHANGED <<auxVars, dbVars, envVars, botVars, posVars, events, histVars, unitVars>>

\* the child (deno, or deno in the container) opens the script it was given
ChildLoadsScript(j) ==
    /\ calls[j].pos = "starting"
    /\ calls' = [calls EXCEPT ![j].pos = "running",
                              ![j].loaded = IF tmpFiles[tmpFile(calls[j].run.code)] # 0
                                           THEN "found" ELSE "missing"]
    /\ UNCHANGED <<auxVars, dbVars, envVars, botVars, posVars, events, histVars, unitVars,
                   tmpFiles>>

\* what execFile can settle with: before the child has opened the script it can
\* fail to start or be killed at the timeout; a child that found no script exits
\* non-zero
SettleKinds(job) ==
    IF job.pos = "starting" THEN {"spawnfail", "timeout"}
    ELSE IF job.loaded = "found" THEN {"exit0", "nonzero", "timeout"}
    ELSE {"nonzero", "timeout"}

\* execFile settled: the return value is made, and finally calls unlink
ExecFileSettles(j, b) ==
    /\ calls[j].pos \in {"starting", "running"}
    /\ b \in Behaviours(calls[j].run.env)
    /\ b.kind \in SettleKinds(calls[j])
    /\ calls' = [calls EXCEPT ![j].pos = "unlinking",
                              ![j].result = executionResult(calls[j].run, b)]
    /\ UNCHANGED <<auxVars, dbVars, envVars, botVars, posVars, events, histVars, unitVars,
                   tmpFiles>>

\* unlink settled (a rejection is swallowed): executeSkill returns
UnlinkDone(j) ==
    /\ calls[j].pos = "unlinking"
    /\ tmpFiles' = unlink(tmpFiles, tmpFile(calls[j].run.code))
    /\ calls' = [calls EXCEPT ![j].pos = "ended"]
    /\ UNCHANGED <<auxVars, dbVars, envVars, botVars, posVars, events, histVars, unitVars>>

NextFiles ==
    \/ \E j \in CallIds, c \in GoodCodes : CallExecuteSkill(j, c)
    \/ \E j \in CallIds : WriteFileDone(j)
    \/ \E j \in CallIds, left \in BOOLEAN : WriteFileFails(j, left)
    \/ \E j \in CallIds : ChildLoadsScript(j)
    \/ \E j \in CallIds : \E b \in Behaviours(calls[j].run.env) : ExecFileSettles(j, b)
    \/ \E j \in CallIds : UnlinkDone(j)

SpecFiles == InitExec /\ [][NextFiles]_vars

\* ------------------------------------------- the secret prompt and its reply
\* A secret name on its way from the Add button to the vault: the button's
\* callback_data, the prompt the click sends, and the name the reply handler
\* reads back from the prompt it is a reply to.  Names are sequences of
\* characters here; K and _ are word characters (\w), - and : are not.
NameChars == {"K", "_", "-", ":"}
WordChars == {"K", "_"}
RECURSIVE SeqsUpTo(_)
SeqsUpTo(n) ==
    IF n = 0 THEN {<<>>}
    ELSE SeqsUpTo(n - 1) \cup {Append(q, c) : q \in SeqsUpTo(n - 1), c \in NameChars}
Names == SeqsUpTo(MaxNameLen) \ {<<>>}

\* `add_secret:${secretName}:${requestId}`
callbackData(secretName, requestId) ==
    <<"add_secret", ":">> \o secretName \o <<":", requestId>>

\* data.split(':')
RECURSIVE split(_)
split(data) ==
    IF \A i \in DOMAIN data : data[i] # ":" THEN <<data>>
    ELSE LET i == CHOOSE j \in DOMAIN data :
                      data[j] = ":" /\ \A k \in 1..(j - 1) : data[k] # ":"
         IN <<SubSeq(data, 1, i - 1)>> \o split(SubSeq(data, i + 1, Len(data)))

\* `🔑 Add Secret: ${secretName}\n\nReply to this message with the secret value...`
promptText(secretName) == <<"Add Secret: ">> \o secretName \o <<"\n", "Reply to this message">>

\* text.match(/🔑 Add Secret: (\w+)/): the word characters that follow the
\* prefix, as far as they go; <<>> stands for no match
wordMatch(text) ==
    IF text = <<>> \/ Head(text) # "Add Secret: " THEN <<>>
    ELSE LET rest == Tail(text)
             stop == {i \in DOMAIN rest : rest[i] \notin WordChars}
             end == IF stop = {} THEN Len(rest)
                    ELSE (CHOOSE i \in stop : \A j \in stop : i <= j) - 1
         IN SubSeq(rest, 1, end)

InitReply == Init /\ dbSecrets = NoSecrets

\* the prompt of a request shows the Add button for a declared secret name
ShowAddButton(secretName) ==
    /\ replyCall.stage = "none"
    /\ replyCall' = [NoReply EXCEPT !.declared = secretName, !.stage = "button",
                                    !.data = callbackData(secretName, "exec_1")]
    /\ UNCHANGED <<fileVars, responses, commanded, dbVars, envVars, botVars, posVars, events,
                   histVars, unitVars>>

\* callback_query 'add_secret:...': parts[1] is taken as the name and the reply
\* prompt is sent
AddSecretClick ==
    /\ replyCall.stage = "button"
    /\ replyCall' = [replyCall EXCEPT !.stage = "prompt",
                                      !.name = split(replyCall.data)[2],
                                      !.text = promptText(split(replyCall.data)[2])]
    /\ UNCHANGED <<fileVars, responses, commanded, dbVars, envVars, botVars, posVars, events,
                   histVars, unitVars>>

\* the operator replies to the prompt with the value: the handler stores it under
\* the name it matches in the prompt's text, or stores nothing without a match
ReplyToPrompt ==
    /\ replyCall.stage = "prompt"
    /\ replyCall' = [replyCall EXCEPT !.stage = "replied",
                                      !.stored = wordMatch(replyCall.text)]
    /\ UNCHANGED <<fileVars, responses, commanded, dbVars, envVars, botVars, posVars, events,
                   histVars, unitVars>>

NextReply ==
    \/ \E n \in Names : ShowAddButton(n)
    \/ AddSecretClick
    \/ ReplyToPrompt

SpecReply == InitReply /\ [][NextReply]_vars

\* ------------------------------------------------- the lifecycle under fairness
\* Awaited I/O completes: Telegram answers sendMessage and editMessageText, and
\* execFile settles for every child it started (the child exits, fails to start,
\* or is killed when the timeout option expires).
SendAnswered == \E r \in ReqIds : SubmitAttach(r)
EditAnswered == \E c \in approving : ApproveResume(c)
ChildSettled ==
    \/ \E run \in runs, m \in Thrown : BackgroundThrows(run, m)
    \/ \E run \in runs : \E b \in Behaviours(run.env) : SandboxReturn(run, b)

IoSettles == SendAnswered \/ EditAnswered \/ ChildSettled

\* Every answer takes one awaited call away and only an input creates one, so
\* fairness of the three together lets none wait for ever.
SpecLive == Spec /\ WF_vars(IoSettles)

\* ===================================================================== claims
ButtonLevels == {"once", "trust_code"}

\* a step that handles an approve event on request r (the handler up to its await,
\* or its continuation), and one that handles a deny event on it
ApproveEvent(r) ==
    \/ \E l \in ButtonLevels : ApproveClick(r, l)
    \/ \E c \in approving : c.req = r /\ ApproveResume(c)
ApproveOnceEvent(r) ==
    \/ ApproveClick(r, "once")
    \/ \E c \in approving : c.req = r /\ c.level = "once" /\ ApproveResume(c)
DenyEvent(r) == \E ok \in BOOLEAN : DenyClick(r, ok)

\* C1: once a request has left pending, every further approve or deny event on it
\* is a no-op: it leaves the request's stored lifecycle state as it was.
C1_ButtonEventAfterPendingIsNoOp ==
    [][\A r \in ReqIds :
          (requests[r].status \notin {"absent", "pending"}
              /\ (ApproveEvent(r) \/ DenyEvent(r)))
          => requests'[r].status = requests[r].status]_vars

\* C2: an approve-once event on a request whose sandbox has already been launched
\* (every declared secret being in the vault) launches nothing and changes no state
\* of the request.
C2_SecondApproveLaunchesNothing ==
    [][\A r \in ReqIds :
          (launched[r] >= 1 /\ ApproveOnceEvent(r)
              /\ missingSecrets(requestMetadata[r], secretStore) = <<>>)
          => launched'[r] = launched[r] /\ requests'[r] = requests[r]]_vars

C4_NoLaunchAfterDeny ==
    [][\A r \in ReqIds : r \in denyHandled => launched'[r] = launched[r]]_vars

\* C5: once a request is denied, completed or failed, no step changes its
\* lifecycle state, its stored result or its stored error.
C5_TerminalIsFinal ==
    [][\A r \in ReqIds :
          requests[r].status \in Terminal
          => /\ requests'[r].status = requests[r].status
             /\ requests'[r].result = requests[r].result
             /\ requests'[r].error = requests[r].error]_vars

C8_NoSecretValueEmitted ==
    /\ \A s \in Surfaces : leaked[s] = {}
    /\ \A r \in ReqIds : Scan(statusText(r)) = {} /\ Scan(viewText(r)) = {}

C10_PresentIffBeforeExpiry ==
    (lookup # NoLookup /\ lookup.grant.level = "24h")
    => (lookup.present <=> lookup.at < lookup.grant.at + TwentyFourHours)

TrustPresent(apps, key, t) ==
    /\ apps[key].approval_level # "none"
    /\ (apps[key].expires_at = 0 \/ apps[key].expires_at >= t)

AsApproveOnce(r, missing) == approveResume(Cur, r, "once", missing, secretStore)

\* the part of a trust-code step that an approve-once step must match
SameAsOnce(r, O) ==
    /\ requests' = O.requests
    /\ launched' = O.launched
    /\ handed' = O.handed
    /\ {[req |-> x.req, code |-> x.code, env |-> x.env] : x \in runs'}
           = {[req |-> x.req, code |-> x.code, env |-> x.env] : x \in O.runs}
    /\ pendingApprovals'[r].requiredSecrets = O.pendingApprovals[r].requiredSecrets

ApproveHandledWithMissing(r) ==
    \/ \E l \in ButtonLevels :
          /\ ~requestMessages[r]
          /\ missingSecrets(requestMetadata[r], secretStore) # <<>>
          /\ ApproveClick(r, l)
    \/ \E c \in approving : c.req = r /\ c.missing # <<>> /\ ApproveResume(c)

\* C14: when an approve event has been handled for a pending request of which a
\* declared secret is missing, the request's stored state is awaiting_secrets, a
\* pending-secret dialogue is registered for it, and no sandbox was launched.
C14_ApproveWithMissingSecretAwaits ==
    [][\A r \in ReqIds :
          (requests[r].status = "pending" /\ ApproveHandledWithMissing(r))
          => /\ requests'[r].status = "awaiting_secrets"
             /\ pendingApprovals'[r] # NoPending
             /\ launched'[r] = launched[r]]_vars

\* a reply that supplies secret n
ReplyFor(n) == \E v \in SecretVals : SecretReply(n, v)

\* C15: after a secret reply, a request waiting on that secret stays
\* awaiting_secrets with its dialogue while a secret it waits for is still missing;
\* when none is missing any more it goes to executing and a sandbox is started
\* for it whose environment holds the vault's values.
C15_ReplyPromptsOrExecutes ==
    [][\A r \in ReqIds, n \in SecretNames :
          (n \in Range(pendingApprovals[r].requiredSecrets) /\ ReplyFor(n))
          => IF missingSecrets(pendingApprovals[r].requiredSecrets, secretStore') # <<>>
             THEN /\ requests'[r].status = "awaiting_secrets"
                  /\ pendingApprovals'[r] # NoPending
                  /\ launched'[r] = launched[r]
             ELSE /\ requests'[r].status = "executing"
                  /\ \E run \in runs' \ runs :
                        /\ run.req = r
                        /\ \A k \in Range(requests[r].secrets) :
                              run.env[k] = secretStore'[k]]_vars

\* C16: a request in a terminal state (denied, completed, failed) has no
\* pending-secret dialogue entry.
C16_NoDialogueInTerminalState ==
    \A r \in ReqIds :
        requests[r].status \in Terminal => pendingApprovals[r] = NoPending

\* C17: a step emits a notification for (request, terminal state) exactly when it
\* takes the request into that terminal state, and then exactly one.
C17_OneNotificationPerTerminalTransition ==
    [][\A r \in ReqIds, t \in Terminal :
          notifs'[<<t, r>>] =
              IF requests[r].status # t /\ requests'[r].status = t
              THEN notifs[<<t, r>>] + 1
              ELSE notifs[<<t, r>>]]_vars

NonZeroExitCodes(run) ==
    {executionResult(run, b).exitCode : b \in {x \in Behaviours(run.env) : x.kind = "nonzero"}}

\* C19: when a child is killed at the timeout, the request ends in failed with a
\* result whose exit code is not one a child exiting non-zero by itself gives.
C19_TimeoutHasOwnExitCode ==
    [][\A run \in runs : \A b \in Behaviours(run.env) :
          (b.kind = "timeout" /\ SandboxReturn(run, b))
          => /\ requests'[run.req].status = "failed"
             /\ requests'[run.req].result.exitCode \notin NonZeroExitCodes(run)]_vars

C21_ChatFailureKeepsRestOfHandling ==
    [][/\ \A u \in Urls, l \in SubmitLists, a \in SubmitArgs :
            SubmitSend(u, l, a, FALSE)
            => \E r \in ReqIds :
                  /\ requests[r].status = "absent"
                  /\ requests'[r].status = "pending"
                  /\ responses'[r] = [code |-> 200, request_id |-> r]
       /\ \A r \in ReqIds :
            DenyClick(r, FALSE)
            => /\ requests'[r].status = "denied"
               /\ notifs'[<<"denied", r>>] = notifs[<<"denied", r>>] + 1]_vars

\* C22: a button click or a text message that comes from a chat other than the
\* configured operator chat changes no request's lifecycle state, no trust record
\* and no vault entry.
C22_OtherChatChangesNothing ==
    [][(\/ \E data \in CallbackData, ok \in BOOLEAN : CallbackQuery("other", data, ok)
        \/ \E text \in MessageTexts : Message("other", text))
       => /\ \A r \in ReqIds : requests'[r].status = requests[r].status
          /\ approvals' = approvals
          /\ secretStore' = secretStore
          /\ dbSecrets' = dbSecrets]_vars

C24_SweepRemovesExactlyExpired ==
    [][StoreCleanup
       => /\ \A k \in TrustKeys :
                approvals'[k] =
                    IF /\ approvals[k].approval_level # "none"
                       /\ approvals[k].expires_at # 0
                       /\ approvals[k].expires_at < now
                    THEN NoApproval ELSE approvals[k]
          /\ requests' = requests
          /\ codes' = codes
          /\ secretStore' = secretStore
          /\ dbSecrets' = dbSecrets]_vars

\* C24 witness: with no lookup made, a 24h record granted more than 24 hours ago
\* is gone while a forever record and the stored secret are still there.
C24_ExpiredSweptForeverKept ==
    /\ lookup = NoLookup
    /\ \E k \in StoreKeys :
          /\ grants[k].level = "24h"
          /\ grants[k].at + TwentyFourHours < now
          /\ approvals[k] = NoApproval
    /\ \E k \in StoreKeys : approvals[k].approval_level = "forever"
    /\ secretStore["K1"] = "v1"

\* the edges of the lifecycle diagram
NonTerminal == {"pending", "approved", "awaiting_secrets", "executing"}
LifecycleEdges ==
    {<<"pending", "approved">>, <<"approved", "executing">>,
     <<"approved", "awaiting_secrets">>, <<"awaiting_secrets", "executing">>,
     <<"executing", "completed">>}
    \cup {<<s, "denied">> : s \in {"pending", "approved", "awaiting_secrets"}}
    \cup {<<s, "failed">> : s \in NonTerminal}

\* every status write of the trail that changes the stored state follows an edge
FollowsEdges(trail) ==
    \A i \in DOMAIN trail :
        trail[i][2] # trail[i][3] => <<trail[i][2], trail[i][3]>> \in LifecycleEdges

\* C25: every write that changes a request's stored lifecycle state follows an
\* edge of the lifecycle diagram (so no request is written executing before its
\* missing-secret check has passed, and none goes from executing to
\* awaiting_secrets).
C25_StatusWritesFollowDiagram ==
    [][/\ \A r \in ReqIds, l \in ButtonLevels :
            ApproveClick(r, l) => FollowsEdges(approveClick(Cur, r, l).trail)
       /\ \A c \in approving :
            ApproveResume(c)
            => FollowsEdges(approveResume(Cur, c.req, c.level, c.missing, secretStore).trail)
       /\ \A r \in ReqIds, ok \in BOOLEAN :
            DenyClick(r, ok) => FollowsEdges(denyClick(Cur, r, ok).trail)
       /\ \A n \in SecretNames :
            SecretReply(n, ValueFor(n))
            => FollowsEdges(resumePending(Cur, ReqIds, n,
                                [secretStore EXCEPT ![n] = ValueFor(n)]).trail)
       /\ \A run \in runs :
            /\ \A b \in Behaviours(run.env) :
                  SandboxReturn(run, b) => FollowsEdges(sandboxReturn(Cur, run, b).trail)
            /\ \A m \in Thrown :
                  BackgroundThrows(run, m)
                  => FollowsEdges(backgroundThrows(Cur, run, m).trail)
       /\ \A r \in ReqIds :
            SubmitAttach(r)
            => FollowsEdges(<<<<r, requests[r].status, requests'[r].status>>>>)]_vars

EntersDialogue(r) ==
    \/ pendingApprovals[r] = NoPending /\ pendingApprovals'[r] # NoPending
    \/ requests[r].status # "awaiting_secrets" /\ requests'[r].status = "awaiting_secrets"

\* with several declared secrets absent, the handler that took r into the dialogue
\* emitted the prompts it was given: they must be one prompt, for the first absent
\* name, and the dialogue must cover the absent names
OnePromptAllCovered(r, emitted) ==
    LET absent == missingSecrets(requests[r].secrets, secretStore')
    IN (EntersDialogue(r) /\ Len(absent) >= 2)
       => /\ SelectSeq(emitted, LAMBDA p : p[1] = r) = <<<<r, absent[1]>>>>
          /\ Range(pendingApprovals'[r].requiredSecrets) = Range(absent)

\* C27: when a request enters the missing-secret sub-dialogue with several
\* declared secrets absent, exactly one secret prompt is emitted, for the first
\* missing name, and the registered dialogue covers every missing name.
C27_OnePromptDialogueCoversAll ==
    [][\A r \in ReqIds :
          /\ \A l \in ButtonLevels :
                (ApproveClick(r, l) /\ ~requestMessages[r])
                => OnePromptAllCovered(r, approveClick(Cur, r, l).prompts)
          /\ \A c \in approving :
                ApproveResume(c)
                => OnePromptAllCovered(r,
                       (IF c.missing # <<>> THEN <<<<c.req, c.missing[1]>>>> ELSE <<>>)
                       \o approveResume(Cur, c.req, c.level, c.missing, secretStore).prompts)
          /\ \A n \in SecretNames :
                SecretReply(n, ValueFor(n))
                => OnePromptAllCovered(r,
                       resumePending(Cur, ReqIds, n,
                           [secretStore EXCEPT ![n] = ValueFor(n)]).prompts)]_vars

\* C28: attaching the chat-message handle to a request leaves the request's
\* lifecycle state as it was, also when an approve or deny event for the request
\* was handled after the prompt was sent and before the handle is attached.
C28_AttachKeepsLifecycleState ==
    [][\A r \in ReqIds :
          SubmitAttach(r)
          => /\ requests'[r].status = requests[r].status
             /\ requests'[r].telegram_message_id = r]_vars

\* C29: a request without a recorded prompt message makes the transitions one with
\* the message makes: when a step takes it to awaiting_secrets a pending-secret
\* dialogue is registered for it, and when its sandbox run returns the result is
\* stored with the terminal state.
C29_NoHandleSameLifecycle ==
    [][\A r \in ReqIds :
          ~requestMessages[r]
          => /\ (requests[r].status # "awaiting_secrets"
                    /\ requests'[r].status = "awaiting_secrets")
                => pendingApprovals'[r] # NoPending
             /\ \A run \in runs : \A b \in Behaviours(run.env) :
                   (run.req = r /\ SandboxReturn(run, b))
                   => /\ requests'[r].result = executionResult(run, b)
                      /\ requests'[r].status \in {"completed", "failed"}]_vars

\* C30: for every declared secret name N, the value supplied by replying to the
\* secret prompt for N is stored in the vault under exactly N.
C30_ReplyStoredUnderDeclaredName ==
    replyCall.stage = "replied" => replyCall.stored = replyCall.declared

C33_EndedRunLeavesNoCodeFile ==
    \A j \in CallIds :
        calls[j].pos = "ended"
        => /\ tmpFiles[tmpFile(calls[j].run.code)] # j
           /\ (\A k \in CallIds : calls[k].pos \notin InFlight \cup {"rejected"})
                  => tmpFiles[tmpFile(calls[j].run.code)] = 0

\* runs have ended in each of the ways: exit 0, a launch failure, the timeout
C33_EndedEachWay ==
    /\ \A j \in CallIds : calls[j].pos = "ended"
    /\ \E j \in CallIds : calls[j].result.success
    /\ \E j \in CallIds : calls[j].result.exitCode = "ENOENT"

\* C35: when two runs with byte-identical code overlap, the code file of a run
\* that is starting or running is never removed by the other run's cleanup: each
\* run has its code file there while it starts and when its child opens it.
C35_CodeFileStaysWhileRunning ==
    \A j \in CallIds :
        /\ calls[j].pos \in {"starting", "running"}
               => tmpFiles[tmpFile(calls[j].run.code)] # 0
        /\ calls[j].loaded # "missing"

\* C34: the secret names whose vault values are injected into a request's sandbox
\* are among the names the request's approval prompt showed the operator (the
\* names the code's metadata declares); a name that is only in the submission's
\* body is never injected.
C34_InjectedNamesWereShown ==
    \A run \in runs : Keys(run.secrets) \subseteq Range(requestMetadata[run.req])

\* C36: for every secret name executeSkill is given, the child sees under that
\* name the vault's value, also when the invocation arguments hold a key of the
\* same name; no argument replaces a secret's value or a runtime-minimum variable.
C36_ArgsNeverReplaceSecrets ==
    execCall # NoCall
    => /\ \A n \in Keys(execCall.secrets) : execCall.env[n] = execCall.secrets[n]
       /\ \A n \in RuntimeMin :
              execCall.env[n] = IF execCall.mode = "direct" THEN ParentEnv[n] ELSE ImageEnv[n]

\* C37: an approve event adds a trust record only when it is the event that moves
\* its request out of pending: a trust-code click on a request that is unknown, or
\* already denied, completed or failed, leaves the trust store as it was.
C37_TrustOnlyFromPendingApprove ==
    [][\A r \in ReqIds :
          (requests[r].status \in {"absent"} \cup Terminal /\ ApproveClick(r, "trust_code"))
          => approvals' = approvals]_vars

\* C38: once a no-expiry (forever) trust record exists for a (source locator,
\* fingerprint), a later grant of any scope for that pair leaves it present and
\* without expiry: a later 24h grant never gives it an expiry.
C38_ForeverTrustKeepsNoExpiry ==
    [][\A k \in StoreKeys, l \in GrantLevels :
          (approvals[k].approval_level = "forever" /\ StoreAdd(k[1], k[2], l))
          => /\ approvals'[k].approval_level # "none"
             /\ approvals'[k].expires_at = 0]_vars

\* C39: every notification that reports a terminal outcome for a request goes
\* with a transition of that existing request into that outcome in the same
\* handler; a deny event on a request that is no longer in a deniable state emits
\* no denied notification.
C39_NotificationOnlyWithTransition ==
    [][\A k \in NotifKinds, r \in ReqIds :
          notifs'[<<k, r>>] # notifs[<<k, r>>]
          => /\ requests[r].status \notin {"absent", k}
             /\ requests'[r].status = k]_vars

====
